---- MODULE Spec2Model ----
(***************************************************************************)
(* Model of the UDP input's metric reporting (filebeat/input/udp/input.go): *)
(* the inputMetrics object, its construction (newInputMetrics), the hot    *)
(* path (log), the background poller goroutine (poll) with its ticker, the *)
(* /proc/net/udp parser (procNetUDP, contains) and the shutdown handshake  *)
(* (close).                                                                *)
(*                                                                         *)
(* Strings are sequences of one-character strings, so that Cut, EqualFold, *)
(* ParseInt and the hexadecimal formatting are computed character by       *)
(* character as the Go library does.  A file is given as the result of     *)
(* bytes.Split(b, "\n"): a non-empty sequence of lines; a line is given as *)
(* the result of bytes.Fields: a sequence of non-empty fields.             *)
(***************************************************************************)
EXTENDS Integers, Sequences, FiniteSets, TLC

(***************************************************************************)
(* Bounds of the model.                                                    *)
(***************************************************************************)
\* log calls made by the receive loop
MaxLogs == 2
\* timestamps and clock readings range over 1..MaxTime (0 is the zero Time)
MaxTime == 2
\* data lines after the header in a /proc/net/udp table
MaxLines == 1
\* close() calls made by the owner
MaxClose == 2

\* lines of a table after its first line, for procNetUDP applied to tables
MaxTableLines == 2

(***************************************************************************)
(* Characters and strings.                                                 *)
(***************************************************************************)
UpperDigits == <<"0", "1", "2", "3", "4", "5", "6", "7", "8", "9", "A", "B", "C", "D", "E", "F">>

LowerDigits == <<"0", "1", "2", "3", "4", "5", "6", "7", "8", "9", "a", "b", "c", "d", "e", "f">>

\* unicode.ToUpper restricted to the characters a key or a field can hold
\* (hexadecimal digits, ":" and letters that are no digit are left alone).
ToUpper(c) ==
    IF \E i \in 11..16 : LowerDigits[i] = c
    THEN UpperDigits[CHOOSE i \in 11..16 : LowerDigits[i] = c]
    ELSE c

\* strings.EqualFold(s, t): equality under simple case folding.
EqualFold(s, t) ==
    /\ Len(s) = Len(t)
    /\ \A i \in 1..Len(s) : ToUpper(s[i]) = ToUpper(t[i])

\* The value of character c as a digit of the base, or -1 when it is none
\* (strconv.ParseUint's digit switch: '0'..'9', then lower(c) in 'a'..'z').
DigitVal(c, base) ==
    IF \E i \in 1..base : UpperDigits[i] = c \/ LowerDigits[i] = c
    THEN (CHOOSE i \in 1..base : UpperDigits[i] = c \/ LowerDigits[i] = c) - 1
    ELSE -1

\* Index of the first occurrence of character c in s, 0 when absent.
IndexOf(s, c) ==
    IF \E i \in 1..Len(s) : s[i] = c
    THEN CHOOSE i \in 1..Len(s) : s[i] = c /\ \A j \in 1..(i - 1) : s[j] # c
    ELSE 0

\* strings.Cut / bytes.Cut(s, sep) for a one-character separator.
Cut(s, sep) ==
    LET i == IndexOf(s, sep)
    IN  IF i = 0
        THEN [before |-> s, after |-> <<>>, found |-> FALSE]
        ELSE [before |-> SubSeq(s, 1, i - 1), after |-> SubSeq(s, i + 1, Len(s)), found |-> TRUE]

\* The digit loop of strconv.ParseUint: the value of the digits of s, or -1
\* when a character is no digit of the base.
ParseDigits(s, base) ==
    LET val[i \in 0..Len(s)] == IF i = 0 THEN 0 ELSE val[i - 1] * base + DigitVal(s[i], base)
    IN  IF \E i \in 1..Len(s) : DigitVal(s[i], base) < 0 THEN -1 ELSE val[Len(s)]

\* strconv.ParseInt(s, base, bitSize) for base 10 or 16: an optional sign,
\* at least one digit, and a value that fits bitSize signed bits.  The
\* strings of the model are shorter than 8 digits, so only the 16 bit range
\* can be left; a 64 bit range error needs 16 or more digits.
ParseInt(s, base, bitSize) ==
    LET neg  == s # <<>> /\ Head(s) = "-"
        sign == s # <<>> /\ Head(s) \in {"+", "-"}
        body == IF sign THEN Tail(s) ELSE s
        un   == IF body = <<>> THEN -1 ELSE ParseDigits(body, base)
        v    == IF neg THEN 0 - un ELSE un
    IN  IF un < 0
        THEN [ok |-> FALSE, val |-> 0]
        ELSE IF bitSize = 16 /\ (v < -32768 \/ v > 32767)
             THEN [ok |-> FALSE, val |-> 0]
             ELSE [ok |-> TRUE, val |-> v]

\* s without its leading "0" characters, the last character kept.
StripZeros(s) ==
    LET first == CHOOSE i \in 1..Len(s) :
                     /\ i = Len(s) \/ s[i] # "0"
                     /\ \A j \in 1..(i - 1) : s[j] = "0"
    IN  SubSeq(s, first, Len(s))

\* The digits of n, 0 <= n < 2^16, in base 16, most significant first,
\* without padding ("0" for 0), taken from the given digit alphabet.
HexDigitsOf(n, digits) ==
    StripZeros(<< digits[(n \div 4096) + 1], digits[((n \div 256) % 16) + 1],
                  digits[((n \div 16) % 16) + 1], digits[(n % 16) + 1] >>)

\* strconv.FormatInt(p, 16) of a 16 bit p: lower case, no padding, "-" for
\* a negative p.
FormatInt16(p) ==
    IF p < 0 THEN <<"-">> \o HexDigitsOf(0 - p, LowerDigits) ELSE HexDigitsOf(p, LowerDigits)

\* fmt.Sprintf("%X", binary.LittleEndian.Uint32(p4)): the four bytes read
\* least significant first, printed in upper case hexadecimal without
\* padding.  The value is printed digit by digit from its bytes (p4[4] is
\* the most significant one), which is the same string.
FormatLE32(p4) ==
    LET byteHex(b) == <<UpperDigits[(b \div 16) + 1], UpperDigits[(b % 16) + 1]>>
    IN  StripZeros(byteHex(p4[4]) \o byteHex(p4[3]) \o byteHex(p4[2]) \o byteHex(p4[1]))

(***************************************************************************)
(* The /proc/net/udp parser.                                               *)
(***************************************************************************)
containsOrNoKeys(b, addr) ==
    addr = <<>> \/ \E i \in 1..Len(addr) : EqualFold(b, addr[i])

\* contains(b, addr): b equals one of the keys, ignoring case.
contains(b, addr) ==
    \E i \in 1..Len(addr) : EqualFold(b, addr[i])

\* The body of procNetUDP's loop for a line f that matched: rx_queue is the
\* part of f[4] after the colon, drops is f[12] (Go indexes from 0), both
\* hexadecimal; the first failure returns 0, 0 and the error.
MatchedLine(f) ==
    LET c  == Cut(f[5], ":")
        rx == ParseInt(c.after, 16, 64)
        dr == ParseInt(f[13], 16, 64)
    IN  IF ~c.found
        THEN [rx |-> 0, drops |-> 0, err |-> "norxqueue"]
        ELSE IF ~rx.ok
             THEN [rx |-> 0, drops |-> 0, err |-> "parserx"]
             ELSE IF ~dr.ok
                  THEN [rx |-> 0, drops |-> 0, err |-> "parsedrops"]
                  ELSE [rx |-> rx.val, drops |-> dr.val, err |-> "nil"]

LineMatchesMoreThan13(f, addr) ==
    Len(f) > 13 /\ contains(f[2], addr)

\* The condition under which procNetUDP takes a line for the socket's.
LineMatches(f, addr) ==
    Len(f) > 12 /\ contains(f[2], addr)

ScanLinesLastMatch(ls, addr) ==
    IF \E i \in 1..Len(ls) : LineMatches(ls[i], addr)
    THEN MatchedLine(ls[CHOOSE i \in 1..Len(ls) :
                            /\ LineMatches(ls[i], addr)
                            /\ \A j \in (i + 1)..Len(ls) : ~LineMatches(ls[j], addr)])
    ELSE [rx |-> 0, drops |-> 0, err |-> "notfound"]

\* procNetUDP's loop over lines[1:]: the first matching line decides.
ScanLines(ls, addr) ==
    IF \E i \in 1..Len(ls) : LineMatches(ls[i], addr)
    THEN MatchedLine(ls[CHOOSE i \in 1..Len(ls) :
                            /\ LineMatches(ls[i], addr)
                            /\ \A j \in 1..(i - 1) : ~LineMatches(ls[j], addr)])
    ELSE [rx |-> 0, drops |-> 0, err |-> "notfound"]

\* procNetUDP(path, addr) on a file that is unreadable (file.readErr) or
\* holds file.lines.
procNetUDP(file, addr) ==
    IF file.readErr
    THEN [rx |-> 0, drops |-> 0, err |-> "read"]
    ELSE IF Len(file.lines) < 2
         THEN [rx |-> 0, drops |-> 0, err |-> "noline"]
         ELSE ScanLines(Tail(file.lines), addr)

\* uint64(v) of an int64 v: v itself, or v + 2^64 for a negative v.  The
\* result is kept as wrap * 2^64 + val, wrap in {0, 1}.
Uint64(v) ==
    [wrap |-> IF v < 0 THEN 1 ELSE 0, val |-> v]

(***************************************************************************)
(* Address resolution in newInputMetrics.                                  *)
(***************************************************************************)
\* net.IP.To4: the 4 bytes of a 4 byte address or of a 16 byte IPv4-mapped
\* one (ten zero bytes, 0xff, 0xff, then the address), else nil.
To4(ip) ==
    IF Len(ip) = 4
    THEN ip
    ELSE IF /\ Len(ip) = 16
            /\ \A i \in 1..10 : ip[i] = 0
            /\ ip[11] = 255
            /\ ip[12] = 255
         THEN SubSeq(ip, 13, 16)
         ELSE <<>>

\* p4 := p.To4(); len(p4) != net.IPv4len
HasV4(ip) ==
    Len(To4(ip)) = 4

\* The loop over the looked-up addresses: one key "%X:%s" for each address
\* with a 4 byte form, in order; the others are skipped.
AddrKeys(ips, ph) ==
    LET v4 == SelectSeq(ips, HasV4)
    IN  [i \in 1..Len(v4) |-> FormatLE32(To4(v4[i])) \o <<":">> \o ph]

\* The resolution steps of newInputMetrics for the listen address dev and
\* the answer of net.LookupIP for its host: why it failed ("nosep",
\* "lookup", "port") or "ok" with the keys.
Resolve(dev, lookup) ==
    LET c == Cut(dev, ":")
        p == ParseInt(c.after, 10, 16)
    IN  IF ~c.found
        THEN [why |-> "nosep", keys |-> <<>>]
        ELSE IF lookup.err
             THEN [why |-> "lookup", keys |-> <<>>]
             ELSE IF ~p.ok
                  THEN [why |-> "port", keys |-> <<>>]
                  ELSE [why |-> "ok", keys |-> AddrKeys(lookup.ips, FormatInt16(p.val))]

EligibleNonNegative(interval, os) ==
    interval >= 0 /\ os = "linux"

\* The gate of newInputMetrics in front of resolution and the poller.
Eligible(interval, os) ==
    interval > 0 /\ os = "linux"

StartsPollerDespiteFailure(interval, os, dev, lookup) ==
    Eligible(interval, os)

\* Whether newInputMetrics makes the done channel and starts the poller
\* goroutine: the gate holds and no resolution step returned early.
StartsPoller(interval, os, dev, lookup) ==
    Eligible(interval, os) /\ Resolve(dev, lookup).why = "ok"

(***************************************************************************)
(* Inputs.                                                                 *)
(***************************************************************************)
\* ctx.ID: empty (no metrics) or not
Ids == {"", "udp-1"}

\* s.config.Host: without a port separator, with port 8080, with a port
\* that is no number
Devices == {<<"h">>, <<"h", ":", "8", "0", "8", "0">>, <<"h", ":", "x">>}

\* s.config.ReadBuffer
BufLens == {4096}

\* the poll argument (Run passes time.Minute; 0 and negative switch polling off)
Intervals == {-1, 0, 1}

\* runtime.GOOS
GOOSes == {"linux", "windows"}

IPLocal16 == <<127, 0, 0, 16>>

IPLoopback == <<127, 0, 0, 1>>

IPv6Loopback == <<0, 0, 0, 0, 0, 0, 0, 0, 0, 0, 0, 0, 0, 0, 0, 1>>

\* Answers of net.LookupIP: an error, one IPv4 address, one IPv6 address
\* only, an IPv6 and an IPv4 address.
Lookups ==
    { [err |-> TRUE, ips |-> <<>>],
      [err |-> FALSE, ips |-> <<IPLocal16>>],
      [err |-> FALSE, ips |-> <<IPLoopback>>],
      [err |-> FALSE, ips |-> <<IPv6Loopback>>],
      [err |-> FALSE, ips |-> <<IPv6Loopback, IPLocal16>>] }

\* local_address of the socket bound to 127.0.0.16:8080 as the kernel
\* prints it ("%08X:%04X")
KernelKey == <<"1", "0", "0", "0", "0", "0", "7", "F", ":", "1", "F", "9", "0">>

\* local_address of the socket bound to 127.0.0.1:8080
LoopbackKey == <<"0", "1", "0", "0", "0", "0", "7", "F", ":", "1", "F", "9", "0">>

\* A line of nf fields with the given local_address (field 1), tx:rx queue
\* (field 4) and, when present, drops (field 12); the other fields hold "0".
Line(nf, key, queue, dr) ==
    [i \in 1..nf |-> IF i = 2 THEN key ELSE IF i = 5 THEN queue ELSE IF i = 13 THEN dr ELSE <<"0">>]

\* tx_queue:rx_queue and drops fields: two well-formed pairs, a queue field
\* without colon, a queue that is no hexadecimal number, drops that are none
FieldPairs ==
    { <<(<<"0", ":", "1", "A">>), (<<"5">>)>>,
      <<(<<"0", ":", "2">>), (<<"1">>)>>,
      <<(<<"1", "A">>), (<<"5">>)>>,
      <<(<<"0", ":", "z">>), (<<"5">>)>>,
      <<(<<"0", ":", "1", "A">>), (<<"z">>)>> }

\* Data lines: 13 fields as the kernel prints them, or cut to 12
DataLines ==
    { Line(nf, key, fp[1], fp[2]) : nf \in {12, 13}, key \in {KernelKey, LoopbackKey}, fp \in FieldPairs }

\* the header line of /proc/net/udp, tokenised
Header == [i \in 1..14 |-> <<"h">>]

\* The sequences of at most n elements of S.
SeqsUpTo(S, n) ==
    UNION { [1..k -> S] : k \in 0..n }

\* What os.ReadFile and bytes.Split give: a read error, an empty file (one
\* empty line), or the header followed by at most MaxLines data lines.
Files ==
    { [readErr |-> TRUE, lines |-> <<>>], [readErr |-> FALSE, lines |-> <<(<<>>)>>] }
    \cup { [readErr |-> FALSE, lines |-> <<Header>> \o ls] : ls \in SeqsUpTo(DataLines, MaxLines) }

(***************************************************************************)
(* State.                                                                  *)
(***************************************************************************)
VARIABLES
    inert,           \* m == nil: newInputMetrics was given an empty id
    poll,            \* the poll argument of newInputMetrics
    goos,            \* runtime.GOOS
    resolution,      \* "skipped" (gate closed or inert), else Resolve(..).why
    registered,      \* the input's registry exists and is registered
    unregisterCalls, \* calls of m.unregister
    done,            \* m.done: "nil" or "made"
    device,          \* m.device
    bufferLen,       \* m.bufferLen
    packets,         \* m.packets
    bytes,           \* m.bytes
    rxQueue,         \* m.rxQueue
    drops,           \* m.drops
    lastPacket,      \* m.lastPacket, 0 is the zero Time
    arrivalPeriod,   \* the values given to m.arrivalPeriod.Update, in order
    processingTime,  \* the values given to m.processingTime.Update, in order
    addr,            \* the keys handed to the poller goroutine
    pollerPC,        \* "none", "new", "select", "setrx", "setdrops", "stopping", "exited"
    pollRx,          \* poll's local rx between procNetUDP and the writes
    pollDrops,       \* poll's local drops
    ticker,          \* the poller's time.Ticker: "none", "running", "stopped"
    tickReady,       \* a tick waits in t.C (a channel of capacity 1)
    ownerPC,         \* the caller of log and close: "idle", "send", "unregister"
    closeCalls,      \* calls of close() begun
    closeReturns,    \* calls of close() returned
    clock,           \* time.Now()
    logged,          \* history: the log calls made, [size, ts, now] each
    osWrites,        \* history: 0 until the poller sets an OS gauge, then 1 and 2 in turn
    lastOK,          \* history: result of the last poll procNetUDP answered without error
    lastErr,         \* history: err of the last poll ("none" before the first)
    raced,           \* history: "inflight" once close() was called between procNetUDP and
                     \* the writes of a tick, "tick" once a tick was taken while close()
                     \* was blocked in its send
    threads,         \* callers of log running concurrently: each one's position in
                     \* log and the arguments of its call
    call             \* the last application of a function to drawn inputs

vars ==
    << inert, poll, goos, resolution, registered, unregisterCalls, done, device, bufferLen,
       packets, bytes, rxQueue, drops, lastPacket, arrivalPeriod, processingTime,
       addr, pollerPC, pollRx, pollDrops, ticker, tickReady,
       ownerPC, closeCalls, closeReturns, clock, logged, osWrites, lastOK, lastErr, raced,
       threads, call >>

metricVars == << packets, bytes, lastPacket, arrivalPeriod, processingTime >>

gaugeVars == << rxQueue, drops, osWrites >>

setupVars == << inert, poll, goos, resolution, done, device, bufferLen, addr >>

pollerVars == << pollerPC, pollRx, pollDrops, ticker, tickReady, lastOK, lastErr >>

histVars == << clock, logged, raced >>

ownerVars == << ownerPC, closeCalls, closeReturns, registered, unregisterCalls >>

sideVars == << threads, call >>

NoResult == [rx |-> 0, drops |-> 0, err |-> "none"]

(***************************************************************************)
(* Construction: the state newInputMetrics leaves.                         *)
(***************************************************************************)
\* The fields newInputMetrics fills whatever the id: counters and gauges
\* are created at 0, the samples empty, lastPacket the zero Time; nothing
\* has run yet.
Fresh ==
    /\ packets = 0
    /\ bytes = 0
    /\ rxQueue = Uint64(0)
    /\ drops = Uint64(0)
    /\ lastPacket = 0
    /\ arrivalPeriod = <<>>
    /\ processingTime = <<>>
    /\ pollRx = 0
    /\ pollDrops = 0
    /\ ticker = "none"
    /\ tickReady = FALSE
    /\ ownerPC = "idle"
    /\ closeCalls = 0
    /\ closeReturns = 0
    /\ unregisterCalls = 0
    /\ logged = <<>>
    /\ osWrites = 0
    /\ lastOK = NoResult
    /\ lastErr = "none"
    /\ raced = {}

newInputMetrics(id, dev, buflen, interval, os, lookup) ==
    /\ poll = interval
    /\ goos = os
    /\ Fresh
    /\ IF id = ""
       THEN /\ inert = TRUE
            /\ registered = FALSE
            /\ device = <<>>
            /\ bufferLen = 0
            /\ resolution = "skipped"
            /\ done = "nil"
            /\ addr = <<>>
            /\ pollerPC = "none"
       ELSE /\ inert = FALSE
            /\ registered = TRUE
            /\ device = dev
            /\ bufferLen = buflen
            /\ resolution = IF Eligible(interval, os) THEN Resolve(dev, lookup).why ELSE "skipped"
            /\ IF StartsPoller(interval, os, dev, lookup)
               THEN /\ done = "made"
                    /\ addr = Resolve(dev, lookup).keys
                    /\ pollerPC = "new"
               ELSE /\ done = "nil"
                    /\ addr = <<>>
                    /\ pollerPC = "none"

\* The goroutines that may call log at the same time.
LogThreads == {1, 2}

\* A caller that is not inside log.
IdleThread == [pc |-> "idle", size |-> 0, ts |-> 0]

\* No function has been applied yet.
NoCall == [fn |-> "none"]

Init ==
    /\ clock = 1
    /\ threads = [t \in LogThreads |-> IdleThread]
    /\ call = NoCall
    /\ \E id \in Ids, dev \in Devices, buflen \in BufLens, interval \in Intervals,
          os \in GOOSes, lookup \in Lookups :
           newInputMetrics(id, dev, buflen, interval, os, lookup)

(***************************************************************************)
(* The hot path: log.                                                      *)
(***************************************************************************)
\* len(data) of a packet
Sizes == {1, 3}

\* The receive loop is serial: a packet's timestamp is a reading of the
\* clock taken after the previous log call was made and before this one.
Timestamps ==
    { t \in 1..clock : logged = <<>> \/ logged[Len(logged)].now <= t }

SinceClamped(ts) ==
    IF clock > ts THEN clock - ts ELSE 0

\* time.Since(timestamp).Nanoseconds()
Since(ts) ==
    clock - ts

BytesSet(size) ==
    size

\* m.bytes.Add(uint64(len(data)))
BytesAdd(size) ==
    bytes + size

ArrivalUpdateAlways(ts) ==
    Append(arrivalPeriod, ts - lastPacket)

\* The arrival period part of log: one insertion of the time since the
\* last packet unless lastPacket is the zero Time.
ArrivalUpdate(ts) ==
    IF lastPacket # 0 THEN Append(arrivalPeriod, ts - lastPacket) ELSE arrivalPeriod

logNoNilCheck(size, ts) ==
    /\ ownerPC = "idle"
    /\ Len(logged) < MaxLogs
    /\ logged' = Append(logged, [size |-> size, ts |-> ts, now |-> clock])
    /\ processingTime' = Append(processingTime, Since(ts))
    /\ packets' = packets + 1
    /\ bytes' = BytesAdd(size)
    /\ arrivalPeriod' = ArrivalUpdate(ts)
    /\ lastPacket' = ts
    /\ UNCHANGED << setupVars, sideVars, gaugeVars, pollerVars, ownerVars, clock, raced >>

\* log(data, timestamp) with len(data) = size.  The counters are uint64 and
\* wrap at 2^64, which MaxLogs packets of these sizes do not reach.
log(size, ts) ==
    /\ ownerPC = "idle"
    /\ Len(logged) < MaxLogs
    /\ logged' = Append(logged, [size |-> size, ts |-> ts, now |-> clock])
    /\ IF inert
       THEN UNCHANGED metricVars
       ELSE /\ processingTime' = Append(processingTime, Since(ts))
            /\ packets' = packets + 1
            /\ bytes' = BytesAdd(size)
            /\ arrivalPeriod' = ArrivalUpdate(ts)
            /\ lastPacket' = ts
    /\ UNCHANGED << setupVars, sideVars, gaugeVars, pollerVars, ownerVars, clock, raced >>

\* Time passes.
Advance ==
    /\ clock < MaxTime
    /\ clock' = clock + 1
    /\ UNCHANGED << setupVars, sideVars, metricVars, gaugeVars, pollerVars, ownerVars, logged, raced >>

(***************************************************************************)
(* log called from several goroutines at once, statement by statement.     *)
(* processingTime and arrivalPeriod are samples behind a mutex, packets    *)
(* and bytes are atomic counters; lastPacket is a plain time.Time field    *)
(* read and written without synchronisation.                               *)
(***************************************************************************)
\* timestamps a caller may pass: any time, before or after the clock
AnyTimestamps == 1..MaxTime

\* What a read of m.lastPacket by thread t gives.  A read that races with
\* the write of another thread (a three word struct) gives the old value,
\* the new one, or words of both: any time.
RacyReads(t) ==
    {lastPacket}
    \cup (IF \E u \in LogThreads \ {t} : threads[u].pc = "store" THEN 0..MaxTime ELSE {})

\* The call, its nil check and m.processingTime.Update(time.Since(timestamp))
LogEnter(t, size, ts) ==
    /\ threads[t].pc = "idle"
    /\ Len(logged) < MaxLogs
    /\ logged' = Append(logged, [size |-> size, ts |-> ts, now |-> clock])
    /\ IF inert
       THEN UNCHANGED << processingTime, threads >>
       ELSE /\ processingTime' = Append(processingTime, Since(ts))
            /\ threads' = [threads EXCEPT ![t] = [pc |-> "count", size |-> size, ts |-> ts]]
    /\ UNCHANGED << setupVars, call, packets, bytes, lastPacket, arrivalPeriod, gaugeVars,
                    pollerVars, ownerVars, clock, raced >>

\* m.packets.Add(1); m.bytes.Add(uint64(len(data)))
LogCount(t) ==
    /\ threads[t].pc = "count"
    /\ packets' = packets + 1
    /\ bytes' = BytesAdd(threads[t].size)
    /\ threads' = [threads EXCEPT ![t].pc = "check"]
    /\ UNCHANGED << setupVars, call, lastPacket, arrivalPeriod, processingTime, gaugeVars,
                    pollerVars, ownerVars, histVars >>

\* if !m.lastPacket.IsZero()
LogCheck(t) ==
    /\ threads[t].pc = "check"
    /\ \E v \in RacyReads(t) :
           threads' = [threads EXCEPT ![t].pc = IF v # 0 THEN "insert" ELSE "store"]
    /\ UNCHANGED << setupVars, call, metricVars, gaugeVars, pollerVars, ownerVars, histVars >>

\* m.arrivalPeriod.Update(timestamp.Sub(m.lastPacket).Nanoseconds())
LogInsert(t) ==
    /\ threads[t].pc = "insert"
    /\ \E v \in RacyReads(t) :
           arrivalPeriod' = Append(arrivalPeriod, threads[t].ts - v)
    /\ threads' = [threads EXCEPT ![t].pc = "store"]
    /\ UNCHANGED << setupVars, call, packets, bytes, lastPacket, processingTime, gaugeVars,
                    pollerVars, ownerVars, histVars >>

\* m.lastPacket = timestamp, and the return
LogStore(t) ==
    /\ threads[t].pc = "store"
    /\ lastPacket' = threads[t].ts
    /\ threads' = [threads EXCEPT ![t] = IdleThread]
    /\ UNCHANGED << setupVars, call, packets, bytes, arrivalPeriod, processingTime, gaugeVars,
                    pollerVars, ownerVars, histVars >>

\* An instance without poller (poll = 0), inert or not.
ConcInit ==
    /\ clock = 1
    /\ threads = [t \in LogThreads |-> IdleThread]
    /\ call = NoCall
    /\ \E id \in Ids :
           newInputMetrics(id, <<"h">>, 4096, 0, "linux", [err |-> TRUE, ips |-> <<>>])

ConcNext ==
    \/ \E t \in LogThreads, size \in Sizes, ts \in AnyTimestamps : LogEnter(t, size, ts)
    \/ \E t \in LogThreads : LogCount(t)
    \/ \E t \in LogThreads : LogCheck(t)
    \/ \E t \in LogThreads : LogInsert(t)
    \/ \E t \in LogThreads : LogStore(t)
    \/ Advance

\* Callers of log on several goroutines, with timestamps of their choice.
ConcSpec == ConcInit /\ [][ConcNext]_vars

(***************************************************************************)
(* The poller goroutine: poll.                                             *)
(***************************************************************************)
\* t := time.NewTicker(each)
PollNewTicker ==
    /\ pollerPC = "new"
    /\ pollerPC' = "select"
    /\ ticker' = "running"
    /\ UNCHANGED << setupVars, sideVars, metricVars, gaugeVars, ownerVars, histVars,
                    pollRx, pollDrops, tickReady, lastOK, lastErr >>

\* The runtime delivers a tick into t.C; a tick that finds t.C full is
\* dropped.
Tick ==
    /\ ticker = "running"
    /\ ~tickReady
    /\ tickReady' = TRUE
    /\ UNCHANGED << setupVars, sideVars, metricVars, gaugeVars, ownerVars, histVars,
                    pollerPC, pollRx, pollDrops, ticker, lastOK, lastErr >>

\* The key lists a poller can be started with.
AddrLists ==
    { Resolve(dev, lookup).keys : dev \in Devices, lookup \in Lookups }

\* What procNetUDP("/proc/net/udp", a) can answer for each key list a, the
\* file being any of Files: the pairs of a key list and an answer.
PollAnswers ==
    { <<a, procNetUDP(file, a)>> : a \in AddrLists, file \in Files }

\* The select can take the case <-t.C.
TickCase ==
    pollerPC = "select" /\ tickReady

DoneCaseNilChannel ==
    pollerPC = "select" /\ ownerPC = "send" /\ done = "nil"

\* The select can take the case <-m.done: close() is blocked in its send.
DoneCase ==
    pollerPC = "select" /\ ownerPC = "send"

\* A tick taken while close() is blocked in its send.
TickRace ==
    IF ownerPC = "send" THEN raced \cup {"tick"} ELSE raced

PollTickFailZeroes(r) ==
    /\ TickCase
    /\ r.err # "nil"
    /\ tickReady' = FALSE
    /\ lastErr' = r.err
    /\ rxQueue' = Uint64(r.rx)
    /\ drops' = Uint64(r.drops)
    /\ osWrites' = IF osWrites = 1 THEN 2 ELSE 1
    /\ raced' = TickRace
    /\ UNCHANGED << setupVars, sideVars, metricVars, ownerVars, clock, logged,
                    pollerPC, pollRx, pollDrops, ticker, lastOK >>

\* case <-t.C with procNetUDP returning the error r.err: warn and continue.
PollTickFail(r) ==
    /\ TickCase
    /\ r.err # "nil"
    /\ tickReady' = FALSE
    /\ lastErr' = r.err
    /\ raced' = TickRace
    /\ UNCHANGED << setupVars, sideVars, metricVars, gaugeVars, ownerVars, clock, logged,
                    pollerPC, pollRx, pollDrops, ticker, lastOK >>

\* case <-t.C with procNetUDP returning r.rx and r.drops.
PollTickOk(r) ==
    /\ TickCase
    /\ r.err = "nil"
    /\ tickReady' = FALSE
    /\ pollRx' = r.rx
    /\ pollDrops' = r.drops
    /\ lastOK' = r
    /\ lastErr' = "nil"
    /\ pollerPC' = "setrx"
    /\ raced' = TickRace
    /\ UNCHANGED << setupVars, sideVars, metricVars, gaugeVars, ownerVars, clock, logged, ticker >>

\* m.rxQueue.Set(uint64(rx))
PollSetRxIntoPackets ==
    /\ pollerPC = "setrx"
    /\ packets' = pollRx
    /\ osWrites' = IF osWrites = 1 THEN 2 ELSE 1
    /\ pollerPC' = "setdrops"
    /\ UNCHANGED << setupVars, sideVars, bytes, lastPacket, arrivalPeriod, processingTime,
                    rxQueue, drops, ownerVars, histVars,
                    pollRx, pollDrops, ticker, tickReady, lastOK, lastErr >>

PollSetRx ==
    /\ pollerPC = "setrx"
    /\ rxQueue' = Uint64(pollRx)
    /\ osWrites' = IF osWrites = 1 THEN 2 ELSE 1
    /\ pollerPC' = "setdrops"
    /\ UNCHANGED << setupVars, sideVars, metricVars, drops, ownerVars, histVars,
                    pollRx, pollDrops, ticker, tickReady, lastOK, lastErr >>

\* m.drops.Set(uint64(drops)), then back to the select
PollSetDrops ==
    /\ pollerPC = "setdrops"
    /\ drops' = Uint64(pollDrops)
    /\ osWrites' = IF osWrites = 1 THEN 2 ELSE 1
    /\ pollerPC' = "select"
    /\ pollRx' = 0
    /\ pollDrops' = 0
    /\ UNCHANGED << setupVars, sideVars, metricVars, rxQueue, ownerVars, histVars,
                    ticker, tickReady, lastOK, lastErr >>

PollStopBreak ==
    /\ DoneCase
    /\ pollerPC' = "select"
    /\ ownerPC' = "unregister"
    /\ UNCHANGED << setupVars, sideVars, metricVars, gaugeVars, histVars,
                    pollRx, pollDrops, ticker, tickReady, lastOK, lastErr,
                    closeCalls, closeReturns, registered, unregisterCalls >>

\* case <-m.done: the receive that completes close()'s send on the
\* unbuffered channel.  Sender and receiver both go on.
PollStop ==
    /\ DoneCase
    /\ pollerPC' = "stopping"
    /\ ownerPC' = "unregister"
    /\ UNCHANGED << setupVars, sideVars, metricVars, gaugeVars, histVars,
                    pollRx, pollDrops, ticker, tickReady, lastOK, lastErr,
                    closeCalls, closeReturns, registered, unregisterCalls >>

\* t.Stop(); return
PollExit ==
    /\ pollerPC = "stopping"
    /\ ticker' = "stopped"
    /\ pollerPC' = "exited"
    /\ UNCHANGED << setupVars, sideVars, metricVars, gaugeVars, ownerVars, histVars,
                    pollRx, pollDrops, tickReady, lastOK, lastErr >>

(***************************************************************************)
(* close.                                                                  *)
(***************************************************************************)
\* close() on a nil receiver returns at once.
CloseInert ==
    /\ ownerPC = "idle"
    /\ closeCalls < MaxClose
    /\ inert
    /\ closeCalls' = closeCalls + 1
    /\ closeReturns' = closeReturns + 1
    /\ UNCHANGED << setupVars, sideVars, metricVars, gaugeVars, pollerVars, histVars,
                    ownerPC, registered, unregisterCalls >>

\* close() called while the poller is between procNetUDP and its writes.
InFlightRace ==
    IF pollerPC \in {"setrx", "setdrops"} THEN raced \cup {"inflight"} ELSE raced

CloseSendAsync ==
    /\ ownerPC = "idle"
    /\ closeCalls < MaxClose
    /\ ~inert
    /\ done # "nil"
    /\ closeCalls' = closeCalls + 1
    /\ ownerPC' = "unregister"
    /\ raced' = InFlightRace
    /\ UNCHANGED << setupVars, sideVars, metricVars, gaugeVars, pollerVars, clock, logged,
                    closeReturns, registered, unregisterCalls >>

\* close() with m.done != nil reaches the send m.done <- struct{}{} and
\* blocks there until the poller receives.
CloseSend ==
    /\ ownerPC = "idle"
    /\ closeCalls < MaxClose
    /\ ~inert
    /\ done # "nil"
    /\ closeCalls' = closeCalls + 1
    /\ ownerPC' = "send"
    /\ raced' = InFlightRace
    /\ UNCHANGED << setupVars, sideVars, metricVars, gaugeVars, pollerVars, clock, logged,
                    closeReturns, registered, unregisterCalls >>

CloseNoPollerSends ==
    /\ ownerPC = "idle"
    /\ closeCalls < MaxClose
    /\ ~inert
    /\ done = "nil"
    /\ closeCalls' = closeCalls + 1
    /\ ownerPC' = "send"
    /\ UNCHANGED << setupVars, sideVars, metricVars, gaugeVars, pollerVars, histVars,
                    closeReturns, registered, unregisterCalls >>

\* close() with m.done == nil goes straight to m.unregister().
CloseNoPoller ==
    /\ ownerPC = "idle"
    /\ closeCalls < MaxClose
    /\ ~inert
    /\ done = "nil"
    /\ closeCalls' = closeCalls + 1
    /\ ownerPC' = "unregister"
    /\ UNCHANGED << setupVars, sideVars, metricVars, gaugeVars, pollerVars, histVars,
                    closeReturns, registered, unregisterCalls >>

\* m.unregister(), then close() returns.
CloseUnregister ==
    /\ ownerPC = "unregister"
    /\ registered' = FALSE
    /\ unregisterCalls' = unregisterCalls + 1
    /\ closeReturns' = closeReturns + 1
    /\ ownerPC' = "idle"
    /\ UNCHANGED << setupVars, sideVars, metricVars, gaugeVars, pollerVars, histVars, closeCalls >>

(***************************************************************************)
(* procNetUDP and the address resolution applied to drawn inputs.          *)
(***************************************************************************)
\* Lines of a table: 13 fields as the kernel prints them, one field more,
\* one less, and the empty line after the last newline.
TableLines ==
    { Line(nf, key, fp[1], fp[2]) :
          nf \in {12, 13, 14}, key \in {KernelKey, LoopbackKey}, fp \in FieldPairs }
    \cup {<<>>}

\* A first line that reads like the data line of the socket.
HeaderLikeData == Line(13, KernelKey, <<"0", ":", "2">>, <<"1">>)

\* What os.ReadFile and bytes.Split give procNetUDP: a read error, an empty
\* file, or a first line followed by at most MaxTableLines lines.
Tables ==
    { [readErr |-> TRUE, lines |-> <<>>], [readErr |-> FALSE, lines |-> <<(<<>>)>>] }
    \cup { [readErr |-> FALSE, lines |-> <<h>> \o ls] :
               h \in {Header, HeaderLikeData}, ls \in SeqsUpTo(TableLines, MaxTableLines) }

\* Listen addresses: no separator, ports 8080, 80, 0, 32767, 32768, 65535,
\* 65536 and -1, a port that is no number, an empty port
ListenAddrs ==
    { <<"h">>,
      <<"h", ":", "8", "0", "8", "0">>,
      <<"h", ":", "8", "0">>,
      <<"h", ":", "0">>,
      <<"h", ":", "3", "2", "7", "6", "7">>,
      <<"h", ":", "3", "2", "7", "6", "8">>,
      <<"h", ":", "6", "5", "5", "3", "5">>,
      <<"h", ":", "6", "5", "5", "3", "6">>,
      <<"h", ":", "-", "1">>,
      <<"h", ":", "x">>,
      <<"h", ":">> }

NoResolution == [why |-> "none", keys |-> <<>>]

\* The applications to make: procNetUDP to a table and a key list the
\* resolution can give, the resolution to a listen address and an answer
\* of net.LookupIP.
Calls ==
    { [fn |-> "procNetUDP", file |-> f, addr |-> a, dev |-> <<>>,
       lookup |-> [err |-> TRUE, ips |-> <<>>], applied |-> FALSE,
       parsed |-> NoResult, resolved |-> NoResolution] : f \in Tables, a \in AddrLists }
    \cup
    { [fn |-> "Resolve", file |-> [readErr |-> TRUE, lines |-> <<>>], addr |-> <<>>, dev |-> d,
       lookup |-> l, applied |-> FALSE,
       parsed |-> NoResult, resolved |-> NoResolution] : d \in ListenAddrs, l \in Lookups }

FnInit ==
    /\ clock = 1
    /\ threads = [t \in LogThreads |-> IdleThread]
    /\ call \in Calls
    /\ newInputMetrics("", <<"h">>, 4096, 0, "linux", [err |-> TRUE, ips |-> <<>>])

\* rx, drops, err := procNetUDP("/proc/net/udp", addr)
ApplyProcNetUDP ==
    /\ call.fn = "procNetUDP"
    /\ ~call.applied
    /\ call' = [call EXCEPT !.applied = TRUE, !.parsed = procNetUDP(call.file, call.addr)]
    /\ UNCHANGED << setupVars, threads, metricVars, gaugeVars, pollerVars, ownerVars, histVars >>

\* The resolution of newInputMetrics, from strings.Cut to the key list
ApplyResolve ==
    /\ call.fn = "Resolve"
    /\ ~call.applied
    /\ call' = [call EXCEPT !.applied = TRUE, !.resolved = Resolve(call.dev, call.lookup)]
    /\ UNCHANGED << setupVars, threads, metricVars, gaugeVars, pollerVars, ownerVars, histVars >>

FnNext ==
    \/ ApplyProcNetUDP
    \/ ApplyResolve

\* The two functions of the OS statistics, each applied once to inputs
\* drawn from Calls.
FnSpec == FnInit /\ [][FnNext]_vars

(***************************************************************************)
(* Specifications.                                                         *)
(***************************************************************************)
Next ==
    \/ \E size \in Sizes, ts \in Timestamps : log(size, ts)
    \/ Advance
    \/ PollNewTicker
    \/ Tick
    \/ \E pa \in PollAnswers : pa[1] = addr /\ PollTickFail(pa[2])
    \/ \E pa \in PollAnswers : pa[1] = addr /\ PollTickOk(pa[2])
    \/ PollSetRx
    \/ PollSetDrops
    \/ PollStop
    \/ PollExit
    \/ CloseInert
    \/ CloseSend
    \/ CloseNoPoller
    \/ CloseUnregister

Spec == Init /\ [][Next]_vars

\* The goroutines of the poller and of the owner are scheduled whenever
\* they can run.  A select with several ready cases takes one of them by a
\* uniform pseudo-random choice, so a case that is ready again and again
\* is taken in the end: strong fairness for the receive from m.done.
\* Nothing makes a tick arrive, a packet arrive or close() be called.
Fairness ==
    /\ WF_vars(PollNewTicker)
    /\ WF_vars(PollSetRx)
    /\ WF_vars(PollSetDrops)
    /\ SF_vars(PollStop)
    /\ WF_vars(PollExit)
    /\ WF_vars(CloseUnregister)

FairSpec == Spec /\ Fairness

(***************************************************************************)
(* Properties.                                                             *)
(***************************************************************************)
\* The poller has been started and has not yet received the stop signal.
Running ==
    pollerPC \in {"new", "select", "setrx", "setdrops"}

\* No OS gauge is written in this step.
NoGaugeWrite ==
    rxQueue' = rxQueue /\ drops' = drops /\ osWrites' = osWrites

\* C1: once a close() has returned, no step writes receive_queue_length or
\* system_packet_drops any more, whatever the poller was doing when close()
\* was called.
C1_NoGaugeWriteAfterClose ==
    [][closeReturns >= 1 => NoGaugeWrite]_vars

\* C1 witness: close() was called while a tick's poll was between
\* procNetUDP and its writes, and has returned after those writes.
C1_Witness ==
    closeReturns >= 1 /\ "inflight" \in raced /\ osWrites # 0

\* C2 as claimed: wherever close() has returned on an instance with a
\* poller, the poller has stopped its ticker and returned.
C2_CloseReturnsAfterPollerExit ==
    (closeReturns >= 1 /\ done = "made") => (pollerPC = "exited" /\ ticker = "stopped")

\* C3: on a non-inert instance every close() that returned has called
\* unregister exactly once; with a poller, unregister is reached only after
\* the poller received the stop signal, and from the moment close() is at
\* unregister no OS gauge is written.
C3_UnregisterAfterStop ==
    /\ [](~inert => /\ unregisterCalls = closeReturns
                    /\ (ownerPC = "unregister" => closeCalls = closeReturns + 1)
                    /\ ((done = "made" /\ (ownerPC = "unregister" \/ unregisterCalls >= 1))
                           => pollerPC \in {"stopping", "exited"}))
    /\ [][(ownerPC = "unregister" \/ unregisterCalls >= 1) => NoGaugeWrite]_vars

\* C3 witness: a poller that wrote the gauges was stopped and close() has
\* unregistered.
C3_Witness ==
    unregisterCalls = 1 /\ done = "made" /\ osWrites # 0 /\ registered = FALSE

\* C4: a close() blocked in its send to a running poller leads to the
\* poller having exited and close() having returned.
C4_ShutdownCompletes ==
    (ownerPC = "send" /\ Running) ~> (pollerPC = "exited" /\ closeReturns >= 1)

\* C4 witness: shutdown completed although a tick was taken while close()
\* was blocked in its send.
C4_Witness ==
    pollerPC = "exited" /\ closeReturns >= 1 /\ "tick" \in raced

\* C5: a tick whose poll fails writes no gauge and leaves the poller at its
\* select with the ticker running; whenever the poller is not between
\* procNetUDP and its writes, both gauges hold the result of the last
\* successful poll (0 before the first).
C5_FailedPollKeepsGauges ==
    /\ [][(tickReady /\ ~tickReady' /\ lastErr' # "nil")
             => (NoGaugeWrite /\ pollerPC' = "select" /\ ticker' = "running")]_vars
    /\ [](pollerPC \notin {"setrx", "setdrops"}
             => (rxQueue = Uint64(lastOK.rx) /\ drops = Uint64(lastOK.drops)))

\* C5 witness: after a successful poll (rx 2, drops 1) a tick failed on the
\* drops field, after rx_queue had been parsed, and the gauges still hold
\* 2 and 1.
C5_Witness ==
    /\ lastErr = "parsedrops"
    /\ pollerPC = "select"
    /\ lastOK.err = "nil"
    /\ rxQueue = Uint64(2)
    /\ drops = Uint64(1)

\* Resolution was tried and failed.
ResolutionFailed ==
    resolution \in {"nosep", "lookup", "port"}

\* C6 as claimed: when resolution fails on an eligible instance, a poller
\* task and its stop channel exist all the same.
C6_FailedResolutionStillStarts ==
    (~inert /\ Eligible(poll, goos) /\ ResolutionFailed) => (pollerPC # "none" /\ done = "made")

\* C6 amended: when resolution fails on an eligible instance no poller is
\* started and no stop channel is made, the OS gauges are never written and
\* close() never waits in the stop handshake; a poller runs with an empty
\* key list only when the lookup answered without an IPv4 address, and then
\* no tick succeeds and the OS gauges are never written.
C6_FailedResolutionStartsNoPoller ==
    /\ (~inert /\ Eligible(poll, goos) /\ ResolutionFailed)
          => /\ pollerPC = "none"
             /\ done = "nil"
             /\ ticker = "none"
             /\ osWrites = 0
             /\ rxQueue = Uint64(0)
             /\ drops = Uint64(0)
             /\ ownerPC # "send"
    /\ (pollerPC # "none" /\ addr = <<>>)
          => /\ resolution = "ok"
             /\ lastErr \in {"none", "read", "noline", "notfound"}
             /\ osWrites = 0

\* C6 witness: resolution failed on the port, and close() has returned
\* after unregistering.
C6_Witness ==
    /\ ~inert
    /\ Eligible(poll, goos)
    /\ resolution = "port"
    /\ closeReturns = 1
    /\ unregisterCalls = 1

\* C7: a poller exists only if the interval is positive and the OS is
\* linux; otherwise there is never a poller, a ticker or a write of the OS
\* gauges.
C7_PollerOnlyWhenEligible ==
    /\ pollerPC # "none" => (poll > 0 /\ goos = "linux")
    /\ ~(poll > 0 /\ goos = "linux")
          => /\ pollerPC = "none"
             /\ done = "nil"
             /\ ticker = "none"
             /\ osWrites = 0
             /\ rxQueue = Uint64(0)
             /\ drops = Uint64(0)

\* C7 witness: a non-inert instance on linux with interval 0 has logged a
\* packet and been closed.
C7_Witness ==
    ~inert /\ goos = "linux" /\ poll = 0 /\ packets >= 1 /\ closeReturns >= 1

\* C8: an inert instance has no registry, stop channel, poller or ticker;
\* its counters, gauges, samples and lastPacket stay as created, unregister
\* is never called, and every close() begun has returned.
C8_InertIsNoOp ==
    inert => /\ registered = FALSE
             /\ unregisterCalls = 0
             /\ done = "nil"
             /\ pollerPC = "none"
             /\ ticker = "none"
             /\ packets = 0
             /\ bytes = 0
             /\ lastPacket = 0
             /\ arrivalPeriod = <<>>
             /\ processingTime = <<>>
             /\ rxQueue = Uint64(0)
             /\ drops = Uint64(0)
             /\ osWrites = 0
             /\ ownerPC = "idle"
             /\ closeReturns = closeCalls

\* C8 witness: log and close() were both called on an inert instance, and
\* close() twice.
C8_Witness ==
    inert /\ Len(logged) = MaxLogs /\ closeReturns = 2

\* The sum of the sizes of the log calls made.
SumSizes ==
    LET sum[i \in 0..Len(logged)] == IF i = 0 THEN 0 ELSE sum[i - 1] + logged[i].size
    IN  sum[Len(logged)]

\* The timestamps of the log calls made are strictly increasing.
StrictlyIncreasing ==
    \A i \in 1..(Len(logged) - 1) : logged[i].ts < logged[i + 1].ts

\* C9: on a non-inert instance, after log calls with strictly increasing
\* timestamps, packets is their number and bytes the sum of their sizes, in
\* every state of the poller.
C9_CountersMatchCalls ==
    (~inert /\ StrictlyIncreasing) => (packets = Len(logged) /\ bytes = SumSizes)

\* C9 witness: two packets of 1 and 3 bytes with increasing timestamps were
\* logged while the poller wrote the gauges in between.
C9_Witness ==
    /\ ~inert
    /\ Len(logged) = 2
    /\ logged[1].ts < logged[2].ts
    /\ logged[1].size = 1
    /\ logged[2].size = 3
    /\ bytes = 4
    /\ pollerPC = "setdrops"

\* C10: on a non-inert instance the arrival period sample got one value
\* for each packet but the first, the timestamp of the packet minus that of
\* the packet before, and lastPacket is the timestamp of the last packet
\* (the zero Time before the first).
C10_ArrivalPeriods ==
    ~inert =>
        /\ Len(arrivalPeriod) = (IF logged = <<>> THEN 0 ELSE Len(logged) - 1)
        /\ \A i \in 1..(Len(logged) - 1) : arrivalPeriod[i] = logged[i + 1].ts - logged[i].ts
        /\ lastPacket = (IF logged = <<>> THEN 0 ELSE logged[Len(logged)].ts)

\* C10 witness: two packets one clock step apart gave one arrival period.
C10_Witness ==
    ~inert /\ Len(logged) = 2 /\ arrivalPeriod = <<1>> /\ lastPacket = 2

\* No caller is inside log.
Quiescent ==
    \A t \in LogThreads : threads[t].pc = "idle"

\* C11: log is atomic with respect to concurrent log calls.  Once n calls
\* made from several goroutines have all returned on a non-inert instance,
\* packets is n, bytes the sum of the sizes, and the arrival period sample
\* got exactly n - 1 values, each the difference of the timestamps of two
\* of the calls.
C11_ConcurrentLogAtomic ==
    (~inert /\ Quiescent) =>
        /\ packets = Len(logged)
        /\ bytes = SumSizes
        /\ Len(arrivalPeriod) = (IF logged = <<>> THEN 0 ELSE Len(logged) - 1)
        /\ \A k \in 1..Len(arrivalPeriod) :
               \E i, j \in 1..Len(logged) :
                   i # j /\ arrivalPeriod[k] = logged[i].ts - logged[j].ts

\* C18 as stated: every value given to the processing time sample is
\* non-negative, max(0, now - timestamp), also for a timestamp later than
\* the clock.
C18_ProcessingTimeNonNegative ==
    ~inert =>
        /\ Len(processingTime) = Len(logged)
        /\ \A i \in 1..Len(processingTime) :
               /\ processingTime[i] >= 0
               /\ processingTime[i] =
                      (IF logged[i].now > logged[i].ts THEN logged[i].now - logged[i].ts ELSE 0)

\* C18: each log call on a non-inert instance gives the processing time
\* sample one value, the clock at the call minus the timestamp, unclamped:
\* it is non-negative exactly when the timestamp is not later than the
\* clock.
C18_ProcessingTimeIsElapsed ==
    ~inert =>
        /\ Len(processingTime) = Len(logged)
        /\ \A i \in 1..Len(processingTime) :
               /\ processingTime[i] = logged[i].now - logged[i].ts
               /\ (processingTime[i] >= 0) <=> (logged[i].ts <= logged[i].now)

\* C18 witness: a packet stamped later than the clock gave a negative
\* value, after a packet stamped at the clock gave 0.
C18_Witness ==
    /\ ~inert
    /\ Len(logged) = 2
    /\ logged[1].ts = logged[1].now
    /\ logged[2].ts > logged[2].now
    /\ processingTime[1] = 0
    /\ processingTime[2] < 0

\* procNetUDP was applied to a table it could read.
ParsedTable ==
    call.fn = "procNetUDP" /\ call.applied /\ ~call.file.readErr

\* The lines of the table after its first line.
DataOf(file) ==
    IF Len(file.lines) < 2 THEN <<>> ELSE Tail(file.lines)

\* The errors of procNetUDP for a matched line it cannot parse.
ParseErrors == {"norxqueue", "parserx", "parsedrops"}

\* C12: procNetUDP decides on the first line after the table's first line
\* that matches a key.  When that line is well-formed the answer is the
\* hexadecimal value of the part of its field 4 after the colon and that of
\* its field 12; when it is malformed the answer is a parse error, whatever
\* the later lines hold.  The first line of the table is never matched.
C12_FirstMatchDecides ==
    ParsedTable =>
        LET data    == DataOf(call.file)
            matches == { i \in 1..Len(data) : LineMatches(data[i], call.addr) }
        IN  IF matches = {}
            THEN call.parsed.err \in {"notfound", "noline"}
            ELSE LET f  == data[CHOOSE i \in matches : \A j \in matches : i <= j]
                     c  == Cut(f[5], ":")
                     rx == ParseInt(c.after, 16, 64)
                     dr == ParseInt(f[13], 16, 64)
                 IN  IF c.found /\ rx.ok /\ dr.ok
                     THEN call.parsed = [rx |-> rx.val, drops |-> dr.val, err |-> "nil"]
                     ELSE /\ call.parsed.err \in ParseErrors
                          /\ call.parsed.rx = 0
                          /\ call.parsed.drops = 0

\* C12 witness: the first line of the table reads like the socket's line,
\* the first matching line after it has no colon in its queue field and the
\* next one is well-formed; the answer is the parse error.
C12_Witness ==
    /\ ParsedTable
    /\ call.addr # <<>>
    /\ Len(call.file.lines) = 3
    /\ call.file.lines[1] = HeaderLikeData
    /\ LineMatches(call.file.lines[2], call.addr)
    /\ ~Cut(call.file.lines[2][5], ":").found
    /\ LineMatches(call.file.lines[3], call.addr)
    /\ MatchedLine(call.file.lines[3]).err = "nil"
    /\ call.parsed.err = "norxqueue"

\* Some line after the first has more than n fields and a second field
\* that equals one of the keys, ignoring case.
SomeCandidate(n) ==
    \E i \in 1..Len(DataOf(call.file)) :
        LET f == DataOf(call.file)[i]
        IN  /\ Len(f) > n
            /\ \E k \in 1..Len(call.addr) : EqualFold(f[2], call.addr[k])

\* C13 as stated: a line is taken for the socket's only if it has more than
\* 13 fields and its second field equals a key ignoring case; a line of 13
\* or fewer fields is never matched.
C13_CandidateHasMoreThan13Fields ==
    (ParsedTable /\ call.parsed.err \notin {"notfound", "noline"}) => SomeCandidate(13)

\* C13: procNetUDP answers something else than "entry not found" exactly
\* when some line after the first has more than 12 fields and a second
\* field that equals a key ignoring case: a line of 13 fields is matched, a
\* line of 12 or fewer never.
C13_CandidateHasMoreThan12Fields ==
    ParsedTable => ((call.parsed.err \notin {"notfound", "noline"}) <=> SomeCandidate(12))

\* C13 witness: the only line after the header has 13 fields and the key
\* in another case than the poller's; its values are the answer.
C13_Witness ==
    /\ ParsedTable
    /\ Len(call.file.lines) = 2
    /\ Len(call.file.lines[2]) = 13
    /\ call.file.lines[2][2] \notin { call.addr[k] : k \in 1..Len(call.addr) }
    /\ call.parsed = [rx |-> 26, drops |-> 5, err |-> "nil"]

\* C14: on a table no line of which matches a key (no key at all, only the
\* first line, no line) procNetUDP answers "entry not found" with zero
\* values, never a parse error.
C14_NoMatchIsNotFound ==
    (ParsedTable /\ ~SomeCandidate(12)) =>
        /\ call.parsed.err = (IF Len(call.file.lines) < 2 THEN "noline" ELSE "notfound")
        /\ call.parsed.rx = 0
        /\ call.parsed.drops = 0

\* C14 witness: with no key, a table whose lines are all malformed is
\* answered "entry not found".
C14_Witness ==
    /\ ParsedTable
    /\ call.addr = <<>>
    /\ Len(call.file.lines) = 3
    /\ \A i \in 2..3 :
           Len(call.file.lines[i]) = 13 /\ MatchedLine(call.file.lines[i]).err \in ParseErrors
    /\ call.parsed.err = "notfound"

\* The resolution was applied to a listen address with a separator and a
\* lookup that answered.
ResolvedPort ==
    /\ call.fn = "Resolve"
    /\ call.applied
    /\ Cut(call.dev, ":").found
    /\ ~call.lookup.err

\* The text after the separator of the listen address.
PortText ==
    Cut(call.dev, ":").after

\* local_address as the kernel prints it for the address bytes p4 and the
\* port: "%08X:%04X" of the address read as a little-endian 32 bit value and
\* the port.
KernelAddress(p4, port) ==
    LET byteHex(b) == <<UpperDigits[(b \div 16) + 1], UpperDigits[(b % 16) + 1]>>
    IN  byteHex(p4[4]) \o byteHex(p4[3]) \o byteHex(p4[2]) \o byteHex(p4[1]) \o <<":">>
        \o << UpperDigits[(port \div 4096) + 1], UpperDigits[((port \div 256) % 16) + 1],
              UpperDigits[((port \div 16) % 16) + 1], UpperDigits[(port % 16) + 1] >>

\* C15 as stated: for a resolved port that is a port number, the keys are
\* one for each looked-up address with an IPv4 form, in order, each equal
\* ignoring case to the local_address the kernel prints for that address
\* and port (eight zero-padded hexadecimal digits of the little-endian
\* value, colon, the port in hexadecimal); the other addresses give no key.
C15_KeysInKernelFormat ==
    (ResolvedPort /\ call.resolved.why = "ok" /\ ParseDigits(PortText, 10) >= 0) =>
        LET v4 == SelectSeq(call.lookup.ips, HasV4)
        IN  /\ Len(call.resolved.keys) = Len(v4)
            /\ \A i \in 1..Len(v4) :
                   EqualFold(call.resolved.keys[i],
                             KernelAddress(To4(v4[i]), ParseDigits(PortText, 10)))

\* The text is a decimal number of 16 unsigned bits: digits only, at least
\* one, with a value of at most 65535.
IsUint16(s) ==
    /\ s # <<>>
    /\ ParseDigits(s, 10) >= 0
    /\ ParseDigits(s, 10) <= 65535

\* C16 as stated: the port of the listen address is accepted exactly when
\* it is a base 10 integer of 16 unsigned bits, 0 to 65535; a negative
\* number, a number above 65535 and a text that is no number are refused.
C16_PortParseAcceptsUint16 ==
    ResolvedPort => ((call.resolved.why = "ok") <=> IsUint16(PortText))

\* C17: a log call changes none of rxQueue, drops, device and bufferLen; a
\* step of the poller changes none of packets, bytes, the two samples,
\* lastPacket, device and bufferLen; the counters, samples and lastPacket
\* change in log calls only and the two OS gauges in the poller's two Set
\* statements only; device and bufferLen keep the values of construction.
C17_Frame ==
    [][ /\ (logged' # logged) => UNCHANGED << rxQueue, drops, osWrites, device, bufferLen >>
        /\ (pollerVars' # pollerVars \/ osWrites' # osWrites) =>
               UNCHANGED << metricVars, device, bufferLen >>
        /\ (metricVars' # metricVars) => (logged' # logged)
        /\ (<< rxQueue, drops >>' # << rxQueue, drops >>) =>
               (pollerPC \in {"setrx", "setdrops"} /\ osWrites' # osWrites)
        /\ UNCHANGED << device, bufferLen >> ]_vars

\* C17 witness: after two log calls and a poll that wrote both gauges the
\* counters hold the packets, the gauges the table's values, and device
\* and bufferLen what construction gave them.
C17_Witness ==
    /\ ~inert
    /\ packets = 2
    /\ arrivalPeriod # <<>>
    /\ rxQueue = Uint64(26)
    /\ drops = Uint64(5)
    /\ pollerPC = "select"
    /\ device = <<"h", ":", "8", "0", "8", "0">>
    /\ bufferLen = 4096

\* C19: the done channel is made exactly when the poller goroutine was
\* started; on a non-inert instance without poller close() is never at the
\* send: each call begun has returned or is at m.unregister().
C19_NoPollerCloseSkipsHandshake ==
    /\ (done = "made") <=> (pollerPC # "none")
    /\ (~inert /\ done = "nil") =>
           /\ ownerPC # "send"
           /\ unregisterCalls = closeReturns
           /\ closeCalls = closeReturns + (IF ownerPC = "unregister" THEN 1 ELSE 0)

\* C19 witness: the lookup of the host failed, no poller was started, and
\* close() unregistered and returned.
C19_Witness ==
    /\ ~inert
    /\ resolution = "lookup"
    /\ done = "nil"
    /\ pollerPC = "none"
    /\ closeCalls = 1
    /\ closeReturns = 1
    /\ unregisterCalls = 1
    /\ ~registered

\* C20: a poller that took the stop signal never goes back to its select;
\* on an instance with poller at most one close() returns and at most one
\* m.unregister() is made, and a second close() stays at the send with no
\* poller to receive.
C20_SecondCloseBlocks ==
    /\ [](done = "made" =>
              /\ closeReturns <= 1
              /\ unregisterCalls <= 1
              /\ closeCalls >= 2 =>
                     /\ closeCalls = 2
                     /\ ownerPC = "send"
                     /\ pollerPC \in {"stopping", "exited"}
                     /\ closeReturns = 1
                     /\ unregisterCalls = 1)
    /\ [][ (pollerPC \in {"stopping", "exited"}) =>
               (pollerPC' \in {"stopping", "exited"}) ]_vars

\* C20 witness: the first close() returned, the poller exited, and the
\* second close() is at the send.
C20_Witness ==
    /\ done = "made"
    /\ pollerPC = "exited"
    /\ closeCalls = 2
    /\ closeReturns = 1
    /\ unregisterCalls = 1
    /\ ownerPC = "send"

====
